---- MODULE Spec2Model ----
(***************************************************************************)
(* Model of backend/train/run.py: the FedAvgAndroidSave strategy           *)
(* (aggregate_fit, save_params), the server bootstrap and the command      *)
(* dispatcher (execute, run) that listens on a multiprocessing Connection. *)
(***************************************************************************)
EXTENDS Integers, Sequences, FiniteSets, TLC

(***************************************************************************)
(* Bounds of the model.                                                    *)
(***************************************************************************)
\* Commands the controller puts on the channel in one behaviour.
MaxCmds == 2
\* Longest `results` list handed to aggregate_fit.
MaxClients == 2
\* Largest num_examples a client reports (0 is a legal report).
MaxExamples == 2

(***************************************************************************)
(* Program constants.                                                      *)
(***************************************************************************)
\* ServerConfig(num_rounds=10)
NumRounds == 10

(***************************************************************************)
(* Values.                                                                 *)
(***************************************************************************)
\* Python's None, as payload and as strategy.model.
None == "None"
\* The values for which isinstance(msg, TFLiteModel) is true.
TFLiteModels == {"model"}
\* The (kind, msg) pairs the controller may send: the two recognized kinds
\* and one that is neither; as payload None, a TFLiteModel, other objects.
Commands ==
    { [kind |-> "ping", msg |-> "hello"],
      [kind |-> "server", msg |-> None],
      [kind |-> "server", msg |-> "model"],
      [kind |-> "server", msg |-> "42"],
      [kind |-> "bogus", msg |-> "42"] }

\* A numeric array element: the exact rational num/den; den = 0 is the
\* not-a-number that numpy's true division yields for 0/0.
RECURSIVE Gcd(_, _)
Gcd(a, b) == IF b = 0 THEN a ELSE Gcd(b, a % b)

Abs(x) == IF x < 0 THEN -x ELSE x

Norm(q) ==
    IF q.den = 0 THEN [num |-> 0, den |-> 0]
    ELSE LET g == Gcd(Abs(q.num), Abs(q.den))
         IN  [num |-> q.num \div g, den |-> q.den \div g]

Rat(n) == [num |-> n, den |-> 1]
NaN == [num |-> 0, den |-> 0]
IsNaN(q) == q.den = 0

\* ndarray * num_examples
Scale(q, n) == IF IsNaN(q) THEN NaN ELSE Norm([num |-> q.num * n, den |-> q.den])
\* np.add
Add(p, q) ==
    IF IsNaN(p) \/ IsNaN(q) THEN NaN
    ELSE Norm([num |-> p.num * q.den + q.num * p.den, den |-> p.den * q.den])
\* ndarray / num_examples_total: 0/0 is nan (a warning, no exception).
DivTotal(q, t) ==
    IF IsNaN(q) \/ t = 0 THEN NaN
    ELSE Norm([num |-> q.num, den |-> q.den * t])

\* Each tensor is modelled as a one-element array.  The tensor lists the
\* clients may report, as integers, in the target model's parameter order.
TensorLists == { <<0, 4>>, <<2, 1>>, <<3, 3>> }

\* FedAvgAndroid.ndarray_to_bytes / bytes_to_ndarray: the wire form of a
\* tensor is its raw buffer, carried in a bytes object.
ndarray_to_bytes(a) == [bytes |-> a]
bytes_to_ndarray(b) == b.bytes

\* FedAvgAndroid.ndarrays_to_parameters / parameters_to_ndarrays
ndarrays_to_parameters(arrs) ==
    [tensors |-> [i \in DOMAIN arrs |-> ndarray_to_bytes(arrs[i])],
     tensor_type |-> "numpy.nda"]
parameters_to_ndarrays(p) ==
    [i \in DOMAIN p.tensors |-> bytes_to_ndarray(p.tensors[i])]

\* The `None` returned in place of Parameters.
NoneParameters == [tensors |-> <<>>, tensor_type |-> None]

\* FitRes as the framework delivers it.
FitResOf(tl, n) ==
    [parameters |-> ndarrays_to_parameters([i \in DOMAIN tl |-> Rat(tl[i])]),
     num_examples |-> n]
FitResults == { FitResOf(tl, n) : tl \in TensorLists, n \in 0..MaxExamples }

\* All sequences over S of length at most n.
SeqUpTo(S, n) == UNION { [1..k -> S] : k \in 0..n }

\* results: (client, fit_res) pairs; the client of entry i is proxy i.
ResultLists == SeqUpTo(FitResults, MaxClients)
\* failures: only emptiness is read by the code.
FailureLists == { <<>>, <<"BaseException">> }

(***************************************************************************)
(* flwr.server.strategy.aggregate.aggregate                                *)
(***************************************************************************)
RECURSIVE SumExamples(_)
SumExamples(wr) ==
    IF wr = <<>> THEN 0 ELSE wr[1][2] + SumExamples(Tail(wr))

\* reduce(np.add, layer_updates) over the clients, at position p
RECURSIVE ReduceAdd(_, _)
ReduceAdd(weighted, p) ==
    IF Len(weighted) = 1 THEN weighted[1][p]
    ELSE Add(weighted[1][p], ReduceAdd(Tail(weighted), p))

MinLen(weighted) ==
    CHOOSE m \in { Len(weighted[i]) : i \in DOMAIN weighted } :
        \A i \in DOMAIN weighted : m <= Len(weighted[i])

aggregate(wr) ==
    LET num_examples_total == SumExamples(wr)
        weighted_weights ==
            [i \in DOMAIN wr |->
                [p \in DOMAIN wr[i][1] |-> Scale(wr[i][1][p], wr[i][2])]]
    IN  [p \in 1..MinLen(weighted_weights) |->
            DivTotal(ReduceAdd(weighted_weights, p), num_examples_total)]

(***************************************************************************)
(* train.models.ModelParams.save                                           *)
(***************************************************************************)
\* What one save call can do: succeed, or fail with a runtime error for
\* mismatched tensor shapes or for an I/O failure.
SaveOutcomes == {"ok", "shape_mismatch", "io_failure"}

\* ModelParams(params=params, tflite_model=self.model)
ModelParams(params, tflite_model) ==
    [params |-> params, tflite_model |-> tflite_model]

\* to_save.save(): writes the weights into the artifact, or raises.
ModelParams_save(to_save, outcome, persisted) ==
    IF outcome = "ok"
    THEN [persisted |-> [persisted EXCEPT ![to_save.tflite_model] = to_save.params],
          raised |-> "none", err |-> "none"]
    ELSE [persisted |-> persisted, raised |-> "RuntimeError", err |-> outcome]

(***************************************************************************)
(* FedAvgAndroidSave                                                       *)
(***************************************************************************)
\* accept_failures: flwr's constructor default, which server() keeps.
DefaultAcceptFailures == TRUE

Strategy(model, accept_failures) ==
    [model |-> model, accept_failures |-> accept_failures]

\* `except RuntimeError` in save_params (mutant: the handler names another
\* exception class).
SaveParamsCatches_Other(exc) == exc = "ValueError"
SaveParamsCatches(exc) == exc = "RuntimeError"

\* `if self.model is None: return` (mutant: the check is missing).
SkipSave_Never(self) == FALSE
SkipSave(self) == self.model = None

\* save_params(self, params): the effects on the artifact store and the log,
\* the exception leaving it, and how many bindings and save calls it made.
save_params(self, params, outcome, persisted, log) ==
    IF SkipSave(self)
    THEN [persisted |-> persisted, log |-> log, raised |-> "none",
          bindings |-> 0, saves |-> 0]
    ELSE LET to_save == ModelParams(params, self.model)
             r == ModelParams_save(to_save, outcome, persisted)
         IN  IF r.raised = "none"
             THEN [persisted |-> r.persisted, log |-> log, raised |-> "none",
                   bindings |-> 1, saves |-> 1]
             ELSE IF SaveParamsCatches(r.raised)
             THEN [persisted |-> r.persisted,
                   log |-> log \cup {<<"error", r.err>>},
                   raised |-> "none", bindings |-> 1, saves |-> 1]
             ELSE [persisted |-> r.persisted, log |-> log,
                   raised |-> r.raised, bindings |-> 1, saves |-> 1]

\* The two early returns of aggregate_fit (mutant: failures are not looked at).
SkipAggregation_OnlyEmpty(self, results, failures) == results = <<>>
SkipAggregation(self, results, failures) ==
    \/ results = <<>>
    \/ (~self.accept_failures /\ failures # <<>>)

\* weights_results = [(parameters_to_ndarrays(...), num_examples) ...]
WeightsResults(results) ==
    [i \in DOMAIN results |->
        <<parameters_to_ndarrays(results[i].parameters), results[i].num_examples>>]

\* aggregate(weights_results) (mutant: the plain mean, example counts ignored).
Aggregated_Unweighted(results) ==
    aggregate([i \in DOMAIN results |->
                  <<parameters_to_ndarrays(results[i].parameters), 1>>])
Aggregated(results) == aggregate(WeightsResults(results))

\* aggregate_fit(self, server_round, results, failures): the returned pair,
\* the exception leaving it, and its effects.
aggregate_fit(self, results, failures, outcome, persisted, log) ==
    IF SkipAggregation(self, results, failures)
    THEN [parameters |-> NoneParameters, metrics |-> {}, raised |-> "none",
          persisted |-> persisted, log |-> log,
          save_params_calls |-> 0, bindings |-> 0, saves |-> 0]
    ELSE LET aggregated == Aggregated(results)
             sp == save_params(self, aggregated, outcome, persisted, log)
         IN  [parameters |->
                  IF sp.raised = "none" THEN ndarrays_to_parameters(aggregated)
                  ELSE NoneParameters,
              metrics |-> {}, raised |-> sp.raised,
              persisted |-> sp.persisted, log |-> sp.log,
              save_params_calls |-> 1, bindings |-> sp.bindings,
              saves |-> sp.saves]

\* The result record before any call has returned.
NoReturn ==
    [parameters |-> NoneParameters, metrics |-> {}, raised |-> "none",
     save_params_calls |-> 0, bindings |-> 0, saves |-> 0, wrote |-> FALSE,
     returned |-> FALSE]
\* r as the caller sees it; `wrote`: the artifact store differs from `before`.
ReturnOf(r, before) ==
    [parameters |-> r.parameters, metrics |-> r.metrics, raised |-> r.raised,
     save_params_calls |-> r.save_params_calls, bindings |-> r.bindings,
     saves |-> r.saves, wrote |-> r.persisted # before,
     returned |-> r.raised = "none"]

\* The empty artifact store, and the stores a call may start from.
NoArrays == <<>>
EmptyStore == [m \in TFLiteModels |-> NoArrays]
InitialStores == { EmptyStore, [m \in TFLiteModels |-> <<Rat(1), Rat(1)>>] }

(***************************************************************************)
(* State.                                                                  *)
(***************************************************************************)
VARIABLES
    pc,         \* where run() is: "recv" (blocked in conn.recv), "dispatch",
                \* "serving" (inside start_server, between rounds), "fit"
                \* (inside aggregate_fit), "served" (start_server returned),
                \* "returned", "raised"; "agg_call"/"agg_ret" for a direct call
    inbox,      \* commands sent by the controller and not yet received
    outbox,     \* replies sent on the channel, each with the command it answers
    readLog,    \* the commands conn.recv() has returned, in order
    exc,        \* the exception raised inside execute, "none" if none
    strategy,   \* the FedAvgAndroidSave object of the current server run
    round,      \* rounds of the current server run that are complete
    call,       \* arguments of the aggregate_fit call in progress (of the
                \* call made, for a direct call)
    ret,        \* what the last aggregate_fit call returned and did
    persisted,  \* the weights stored in each model artifact
    log,        \* the messages logged so far (level, text), as a set
    runs,       \* the server() calls so far: command, model, returned, saved
    active,     \* server runs in progress
    saving      \* save calls in progress

vars == <<pc, inbox, outbox, readLog, exc, strategy, round, call, ret,
          persisted, log, runs, active, saving>>

NoCall == [results |-> <<>>, failures |-> <<>>, outcome |-> "ok", made |-> FALSE]
CallOf(results, failures) ==
    [results |-> results, failures |-> failures, outcome |-> "ok", made |-> TRUE]

(***************************************************************************)
(* aggregate_fit called directly on any strategy and any arguments.        *)
(***************************************************************************)
InitAgg ==
    /\ pc = "agg_call"
    /\ inbox = <<>> /\ outbox = <<>> /\ readLog = <<>> /\ exc = "none"
    /\ strategy \in { Strategy(m, a) : m \in TFLiteModels \cup {None},
                                       a \in BOOLEAN }
    /\ round = 0
    /\ call \in { CallOf(r, f) : r \in ResultLists, f \in FailureLists }
    /\ ret = NoReturn
    /\ persisted \in InitialStores
    /\ log = {}
    /\ runs = <<>> /\ active = 0 /\ saving = 0

AggregateFit(outcome) ==
    /\ pc = "agg_call"
    /\ LET r == aggregate_fit(strategy, call.results, call.failures, outcome,
                              persisted, log)
       IN  /\ ret' = ReturnOf(r, persisted)
           /\ persisted' = r.persisted
           /\ log' = r.log
           /\ exc' = r.raised
    /\ call' = [call EXCEPT !.outcome = outcome]
    /\ pc' = "agg_ret"
    /\ UNCHANGED <<inbox, outbox, readLog, strategy, round, runs, active, saving>>

NextAgg == \E outcome \in SaveOutcomes : AggregateFit(outcome)

SpecAgg == InitAgg /\ [][NextAgg]_vars

(***************************************************************************)
(* server, execute, run.                                                   *)
(***************************************************************************)
\* The inputs the framework hands to aggregate_fit in a server run.
RoundResults ==
    { <<>>, <<FitResOf(<<0, 4>>, 1), FitResOf(<<2, 1>>, 2)>> }
RoundCalls == { CallOf(r, f) : r \in RoundResults, f \in FailureLists }

\* isinstance(msg, TFLiteModel)
IsTFLiteModel(msg) == msg \in TFLiteModels

\* The model execute passes to server() (mutant: the payload is dropped).
ServerArg_Dropped(msg) == None
ServerArg(msg) == IF IsTFLiteModel(msg) THEN msg ELSE None

\* The if / elif / else of execute (mutant: the else branch launches too).
Branch_ElseServer(kind) == IF kind = "ping" THEN "ping" ELSE "server"
Branch(kind) ==
    IF kind = "ping" THEN "ping"
    ELSE IF kind = "server" THEN "server"
    ELSE "other"

\* What each branch sends with conn.send (mutant: the else branch is silent).
Replies_SilentElse(branch) ==
    IF branch = "ping" THEN <<"pong">>
    ELSE IF branch = "server" THEN <<"done">>
    ELSE <<>>
Replies(branch) ==
    IF branch = "ping" THEN <<"pong">>
    ELSE IF branch = "server" THEN <<"done">>
    ELSE <<"cannot understand">>

\* `except KeyboardInterrupt: break` in run (mutants: a bare except; no
\* handler at all).
RunIntercepts_All(e) == TRUE
RunIntercepts_None(e) == FALSE
RunIntercepts(e) == e = "KeyboardInterrupt"

\* conn.recv() is reached only at the top of execute, which run calls again
\* only after the previous call returned (mutant: the server runs beside the
\* loop, which keeps receiving).
CanRecv_Eager(p) == p \in {"recv", "serving", "fit"}
CanRecv(p) == p = "recv"

\* The command execute is working on.
cur == readLog[Len(readLog)]
NSent == Len(readLog) + Len(inbox)
Tagged(texts) == [i \in DOMAIN texts |-> [cmd |-> Len(readLog), text |-> texts[i]]]

\* An exception e leaves execute: run breaks out of its loop or lets it go.
Unwind(e) ==
    /\ pc' = IF RunIntercepts(e) THEN "returned" ELSE "raised"
    /\ exc' = e
    /\ active' = 0
    /\ saving' = 0

Init ==
    /\ pc = "recv"
    /\ inbox = <<>> /\ outbox = <<>> /\ readLog = <<>> /\ exc = "none"
    /\ strategy = Strategy(None, DefaultAcceptFailures)
    /\ round = 0
    /\ call = NoCall
    /\ ret = NoReturn
    /\ persisted = EmptyStore
    /\ log = {<<"warning", "Runner started.">>}
    /\ runs = <<>> /\ active = 0 /\ saving = 0

\* The controller puts a command on the channel.
Send(c) ==
    /\ NSent < MaxCmds
    /\ inbox' = Append(inbox, c)
    /\ UNCHANGED <<pc, outbox, readLog, exc, strategy, round, call, ret,
                   persisted, log, runs, active, saving>>

\* kind, msg = conn.recv()
Recv ==
    /\ CanRecv(pc)
    /\ inbox # <<>>
    /\ readLog' = Append(readLog, Head(inbox))
    /\ inbox' = Tail(inbox)
    /\ pc' = "dispatch"
    /\ UNCHANGED <<outbox, exc, strategy, round, call, ret, persisted, log,
                   runs, active, saving>>

\* conn.recv() raises: the peer closed the channel.
RecvFault ==
    /\ pc = "recv"
    /\ Unwind("EOFError")
    /\ UNCHANGED <<inbox, outbox, readLog, strategy, round, call, ret,
                   persisted, log, runs>>

\* if kind == "ping"
ExecPing ==
    /\ pc = "dispatch"
    /\ Branch(cur.kind) = "ping"
    /\ log' = log \cup {<<"warning", "Received", cur.msg>>}
    /\ outbox' = outbox \o Tagged(Replies("ping"))
    /\ pc' = "recv"
    /\ UNCHANGED <<inbox, readLog, exc, strategy, round, call, ret, persisted,
                   runs, active, saving>>

\* else
ExecOther ==
    /\ pc = "dispatch"
    /\ Branch(cur.kind) = "other"
    /\ log' = log \cup {<<"error", "Unknown kind", cur.kind, cur.msg>>}
    /\ outbox' = outbox \o Tagged(Replies("other"))
    /\ pc' = "recv"
    /\ UNCHANGED <<inbox, readLog, exc, strategy, round, call, ret, persisted,
                   runs, active, saving>>

\* elif kind == "server": up to the call of start_server inside server()
ExecServer ==
    /\ pc = "dispatch"
    /\ Branch(cur.kind) = "server"
    /\ log' = log \cup {<<"warning", "Launching server", cur.msg>>}
                  \cup (IF ~IsTFLiteModel(cur.msg) /\ cur.msg # None
                        THEN {<<"error", "Unknown argument", cur.msg>>}
                        ELSE {})
    /\ strategy' = Strategy(ServerArg(cur.msg), DefaultAcceptFailures)
    /\ round' = 0
    /\ call' = NoCall
    /\ ret' = NoReturn
    /\ runs' = Append(runs, [cmd |-> Len(readLog), model |-> ServerArg(cur.msg),
                             returned |-> FALSE, saved |-> FALSE])
    /\ active' = active + 1
    /\ pc' = "serving"
    /\ UNCHANGED <<inbox, outbox, readLog, exc, persisted, saving>>

\* The framework calls strategy.aggregate_fit for the next round.
FitCall(c) ==
    /\ pc = "serving"
    /\ round < NumRounds
    /\ call' = c
    /\ saving' = saving + aggregate_fit(strategy, c.results, c.failures, "ok",
                                        persisted, log).saves
    /\ pc' = "fit"
    /\ UNCHANGED <<inbox, outbox, readLog, exc, strategy, round, ret,
                   persisted, log, runs, active>>

\* aggregate_fit returns to the framework, or an exception leaves it.
FitReturn(outcome) ==
    /\ pc = "fit"
    /\ LET r == aggregate_fit(strategy, call.results, call.failures, outcome,
                              persisted, log)
       IN  /\ ret' = ReturnOf(r, persisted)
           /\ persisted' = r.persisted
           /\ log' = r.log
           /\ runs' = [runs EXCEPT ![Len(runs)].saved = @ \/ r.saves > 0]
           /\ IF r.raised = "none"
              THEN /\ pc' = "serving"
                   /\ round' = round + 1
                   /\ saving' = saving - r.saves
                   /\ UNCHANGED <<exc, active>>
              ELSE /\ Unwind(r.raised)
                   /\ UNCHANGED round
    /\ call' = NoCall
    /\ UNCHANGED <<inbox, outbox, readLog, strategy>>

\* start_server returns after the last round, and server() with it.
ServerReturn ==
    /\ pc = "serving"
    /\ round = NumRounds
    /\ runs' = [runs EXCEPT ![Len(runs)].returned = TRUE]
    /\ active' = active - 1
    /\ pc' = "served"
    /\ UNCHANGED <<inbox, outbox, readLog, exc, strategy, round, call, ret,
                   persisted, log, saving>>

\* conn.send("done")
ExecServerReply ==
    /\ pc = "served"
    /\ outbox' = outbox \o Tagged(Replies("server"))
    /\ pc' = "recv"
    /\ UNCHANGED <<inbox, readLog, exc, strategy, round, call, ret, persisted,
                   log, runs, active, saving>>

\* start_server raises (the port is taken, the transport fails).
ServerFault ==
    /\ pc = "serving"
    /\ Unwind("OSError")
    /\ UNCHANGED <<inbox, outbox, readLog, strategy, round, call, ret,
                   persisted, log, runs>>

\* KeyboardInterrupt is raised in the thread of run, wherever it is; a save
\* it cuts short may or may not have reached the artifact.
Interrupt ==
    /\ pc \in {"recv", "dispatch", "serving", "fit", "served"}
    /\ Unwind("KeyboardInterrupt")
    /\ persisted' \in
          {persisted} \cup
          (IF pc = "fit"
           THEN {aggregate_fit(strategy, call.results, call.failures, "ok",
                               persisted, log).persisted}
           ELSE {})
    /\ UNCHANGED <<inbox, outbox, readLog, strategy, round, call, ret, log, runs>>

Next ==
    \/ \E c \in Commands : Send(c)
    \/ Recv
    \/ RecvFault
    \/ ExecPing
    \/ ExecOther
    \/ ExecServer
    \/ \E c \in RoundCalls : FitCall(c)
    \/ \E outcome \in SaveOutcomes : FitReturn(outcome)
    \/ ServerReturn
    \/ ExecServerReply
    \/ ServerFault
    \/ Interrupt

Spec == Init /\ [][Next]_vars

(***************************************************************************)
(* Properties of the dispatcher.                                           *)
(***************************************************************************)
\* Replies sent for the i-th command read.
NReplies(i) == Cardinality({ j \in DOMAIN outbox : outbox[j].cmd = i })
\* server() calls made for the i-th command read.
NLaunches(i) == Cardinality({ j \in DOMAIN runs : runs[j].cmd = i })
Executing == pc \in {"dispatch", "serving", "fit", "served"}
Ended == pc \in {"returned", "raised"}
LastIsServerRun ==
    /\ runs # <<>>
    /\ runs[Len(runs)].cmd = Len(readLog)

C2_ReplyByKind ==
    /\ \A j \in DOMAIN outbox :
          LET k == readLog[outbox[j].cmd].kind
          IN  outbox[j].text =
                 (IF k = "ping" THEN "pong"
                  ELSE IF k = "server" THEN "done"
                  ELSE "cannot understand")
    /\ \A j \in DOMAIN outbox :
          outbox[j].text = "done" =>
              \E r \in DOMAIN runs :
                  runs[r].cmd = outbox[j].cmd /\ runs[r].returned
    /\ \A i \in DOMAIN readLog :
          readLog[i].kind # "server" => NLaunches(i) = 0

C2_Witness ==
    /\ Len(outbox) = 2
    /\ outbox[1].text = "cannot understand"
    /\ outbox[2].text = "done"
    /\ NLaunches(1) = 0

\* C5: run has returned exactly when a KeyboardInterrupt was raised, and an
\* exception left it exactly when another one was raised; while none was
\* raised and every command read is answered, run is back at conn.recv().
C5_ReturnsIffInterrupt ==
    /\ pc = "returned" <=> exc = "KeyboardInterrupt"
    /\ pc = "raised" <=> exc \notin {"none", "KeyboardInterrupt"}
    /\ (exc = "none" /\ \A i \in DOMAIN readLog : NReplies(i) = 1)
          => pc = "recv"

\* run returned on an interrupt that came while it waited for a command.
C5_Witness ==
    /\ pc = "returned"
    /\ Len(readLog) = 1
    /\ NReplies(1) = 1
    /\ inbox # <<>>

\* C8: a command is read only after the one before it was answered; while a
\* server run lasts, its command is the last one read; at most one server run
\* and at most one save are in progress.
C8_OneAtATime ==
    /\ \A i \in DOMAIN readLog : i < Len(readLog) => NReplies(i) = 1
    /\ pc \in {"serving", "fit", "served"} => LastIsServerRun
    /\ active <= 1
    /\ saving <= 1
    /\ active = 1 <=> pc \in {"serving", "fit"}
    /\ saving = 1 => pc = "fit"

\* A save is in flight while a second command waits on the channel.
C8_Witness ==
    /\ pc = "fit"
    /\ saving = 1
    /\ Len(readLog) = 1
    /\ inbox # <<>>

\* C9: a "server" command launches server() once, with the payload as model
\* when it is a TFLiteModel and with None otherwise, logging an error for a
\* payload that is neither; a run without model makes no save call.
C9_LaunchOnce ==
    /\ \A i \in DOMAIN readLog :
          /\ NLaunches(i) <= 1
          /\ (readLog[i].kind = "server"
                /\ (i < Len(readLog) \/ pc \in {"recv", "serving", "fit", "served"}))
             => NLaunches(i) = 1
    /\ \A r \in DOMAIN runs :
          LET msg == readLog[runs[r].cmd].msg
          IN  /\ readLog[runs[r].cmd].kind = "server"
              /\ runs[r].model = (IF msg \in TFLiteModels THEN msg ELSE None)
              /\ (msg \notin TFLiteModels /\ msg # None)
                    => <<"error", "Unknown argument", msg>> \in log
              /\ runs[r].model = None => ~runs[r].saved
    /\ (pc \in {"serving", "fit"} /\ strategy.model = None)
          => saving = 0 /\ ret.saves = 0 /\ ~ret.wrote

C9_Witness ==
    /\ Len(runs) = 2
    /\ readLog[runs[1].cmd].msg = "42" /\ runs[1].returned /\ ~runs[1].saved
    /\ runs[2].model = "model" /\ runs[2].saved

\* C10: a KeyboardInterrupt raised between the read of a "server" command and
\* its reply makes run return, and from then on nothing is sent.
C10_InterruptedServerUnanswered ==
    [][ /\ (pc \in {"serving", "fit", "served"} /\ exc' = "KeyboardInterrupt")
            => (pc' = "returned" /\ outbox' = outbox)
        /\ pc = "returned" => (pc' = "returned" /\ outbox' = outbox) ]_vars

C10_Witness ==
    /\ pc = "returned"
    /\ LastIsServerRun
    /\ ~runs[Len(runs)].returned
    /\ round > 0
    /\ NReplies(Len(readLog)) = 0

(***************************************************************************)
(* Properties of aggregate_fit and save_params.                            *)
(***************************************************************************)
Returned == pc = "agg_ret"
\* The case of the two early returns, and its complement.
NothingToAggregate ==
    \/ call.results = <<>>
    \/ (call.failures # <<>> /\ ~strategy.accept_failures)

\* Sum over the clients of num_examples * (array at position p - q), scaled
\* by the denominators: zero exactly when q is the weighted average.
RECURSIVE WeightedDeviation(_, _, _)
WeightedDeviation(results, p, q) ==
    IF results = <<>> THEN 0
    ELSE LET w == bytes_to_ndarray(results[1].parameters.tensors[p])
         IN  results[1].num_examples * (w.num * q.den - q.num * w.den)
                + WeightedDeviation(Tail(results), p, q)

RECURSIVE TotalExamples(_)
TotalExamples(results) ==
    IF results = <<>> THEN 0
    ELSE results[1].num_examples + TotalExamples(Tail(results))

\* The returned parameters hold, at every tensor position of the clients, the
\* average of the clients' arrays weighted by num_examples.
ReturnsWeightedAverage ==
    /\ ret.returned
    /\ ret.parameters # NoneParameters
    /\ ret.parameters.tensor_type = "numpy.nda"
    /\ DOMAIN ret.parameters.tensors = DOMAIN call.results[1].parameters.tensors
    /\ \A p \in DOMAIN ret.parameters.tensors :
          LET q == bytes_to_ndarray(ret.parameters.tensors[p])
          IN  /\ q.den > 0
              /\ WeightedDeviation(call.results, p, q) = 0
    /\ ret.metrics = {}

\* C3: with no results, or with failures that are not accepted, aggregate_fit
\* returns (None, {}) and calls neither save_params nor save; save_params is
\* called only with a result and with no failure or failures accepted.
C3_NoAggregationNoSave ==
    Returned =>
        /\ NothingToAggregate =>
              /\ ret.returned
              /\ ret.parameters = NoneParameters
              /\ ret.metrics = {}
              /\ ret.save_params_calls = 0
              /\ ret.saves = 0
              /\ ~ret.wrote
        /\ (ret.save_params_calls > 0 \/ ret.parameters # NoneParameters) =>
              /\ call.results # <<>>
              /\ (call.failures = <<>> \/ strategy.accept_failures)

C3_Witness ==
    /\ Returned
    /\ call.results # <<>>
    /\ call.failures # <<>>
    /\ ~strategy.accept_failures
    /\ strategy.model # None
    /\ ret.parameters = NoneParameters

\* C4: when the save fails, for mismatched shapes or for I/O, save_params logs
\* the error and nothing is raised: aggregate_fit returns the parameters and
\* the empty metrics it returns when the save succeeds.
C4_SaveFailureSwallowed ==
    (Returned /\ ret.saves > 0 /\ call.outcome # "ok") =>
        /\ exc = "none"
        /\ ret.returned
        /\ <<"error", call.outcome>> \in log
        /\ ret.parameters = ndarrays_to_parameters(aggregate(WeightsResults(call.results)))
        /\ ret.metrics = {}

C4_Witness ==
    /\ Returned
    /\ ret.saves = 1
    /\ call.outcome = "io_failure"
    /\ ret.parameters # NoneParameters

\* C6 as stated: for every non-empty results with no failure, or failures
\* accepted, the return is the weighted average and {}.
C6_WeightedAverage ==
    (Returned /\ ~NothingToAggregate) => ReturnsWeightedAverage

\* C6 amended: the same, when the clients' num_examples sum to more than zero.
C6_WeightedAverageOfExamples ==
    (Returned /\ ~NothingToAggregate /\ TotalExamples(call.results) > 0)
        => ReturnsWeightedAverage

\* Two clients with different arrays and different positive weights.
C6_Witness ==
    /\ Returned
    /\ ~NothingToAggregate
    /\ Len(call.results) = 2
    /\ call.results[1].parameters # call.results[2].parameters
    /\ call.results[1].num_examples = 1
    /\ call.results[2].num_examples = 2
    /\ ReturnsWeightedAverage

\* C7: without a model, save_params binds nothing, calls no save, raises
\* nothing and leaves the artifact store as it was.
C7_NoModelNoSave ==
    (Returned /\ strategy.model = None) =>
        /\ exc = "none"
        /\ ret.returned
        /\ ret.bindings = 0
        /\ ret.saves = 0
        /\ ~ret.wrote
        /\ log = {}

C7_Witness ==
    /\ Returned
    /\ strategy.model = None
    /\ ret.save_params_calls = 1
    /\ call.outcome = "shape_mismatch"
    /\ persisted # EmptyStore

====
